---- MODULE Spec2Model ----
(***************************************************************************)
(* LLVMToTriton (src/libtriton/ast/llvm/llvmToTriton.cpp): the lifter that  *)
(* converts the terminator of an LLVM function's entry block into a Triton  *)
(* AST by a non-memoized recursive descent over the operands.               *)
(*                                                                          *)
(* The recursion of do_convert is modelled by an explicit call stack: one   *)
(* frame per active invocation, holding the value being converted, the      *)
(* nodes of the operands already converted and the operand indexes it has   *)
(* descended into.  An exception empties the stack in the step that raises  *)
(* it (the file has no try/catch).  Dereferencing a null pointer (a null    *)
(* node reaching isLogical() or a builder, the null callee of an indirect   *)
(* call) reads through address zero, which ends the process.                *)
(***************************************************************************)
EXTENDS Integers, Sequences, FiniteSets, TLC

(***************************************************************************)
(* Bounds of the model.                                                     *)
(***************************************************************************)
\* number of registered arguments offered as leaves of the wide family
NumArgs == 2

(***************************************************************************)
(* Integers wider than TLC's are kept as little-endian base-2^16 digits:    *)
(* NumDigits digits hold a 128-bit APInt, Digits64 of them a uint64_t.      *)
(***************************************************************************)
DigitMax == 65535
NumDigits == 8
Digits64 == 4

Zero128 == [i \in 1..NumDigits |-> 0]

\* the number d0 + d1 * 2^16 + d4 * 2^64 as digits
Dig(d0, d1, d4) == [i \in 1..NumDigits |-> IF i = 1 THEN d0 ELSE IF i = 2 THEN d1 ELSE IF i = 5 THEN d4 ELSE 0]

AllOnes64 == [i \in 1..NumDigits |-> IF i <= Digits64 THEN DigitMax ELSE 0]

\* APInt::getActiveBits() > 64
MoreThan64Bits(v) == \E i \in (Digits64 + 1)..NumDigits : v[i] # 0

\* llvm::ConstantInt::getLimitedValue(Limit = ~0ULL): min(value, 2^64 - 1)
getLimitedValue(v) == IF MoreThan64Bits(v) THEN AllOnes64 ELSE v

(***************************************************************************)
(* Triton AST nodes, as the AstContext builders return them.                *)
(***************************************************************************)
Node(op, a, b, name, val, kids) ==
  [op |-> op, a |-> a, b |-> b, name |-> name, val |-> val, kids |-> kids]

\* the null SharedAbstractNode
NullNode == Node("nullptr", 0, 0, "", Zero128, <<>>)
\* no node at all (nothing was returned)
NoNode == Node("none", 0, 0, "", Zero128, <<>>)

IsNode(n) == n.op \notin {"nullptr", "none"}

Build1(op, x) == Node(op, 0, 0, "", Zero128, <<x>>)
Build2(op, x, y) == Node(op, 0, 0, "", Zero128, <<x, y>>)
ite(c, t, e) == Node("ite", 0, 0, "", Zero128, <<c, t, e>>)
bv(value, size) == Node("bv", size, 0, "", value, <<>>)
bvtrue == Node("bvtrue", 0, 0, "", Zero128, <<>>)
bvfalse == Node("bvfalse", 0, 0, "", Zero128, <<>>)
sx(ext, x) == Node("sx", ext, 0, "", Zero128, <<x>>)
zx(ext, x) == Node("zx", ext, 0, "", Zero128, <<x>>)
extract(high, low, x) == Node("extract", high, low, "", Zero128, <<x>>)
variable(name) == Node("variable", 0, 0, name, Zero128, <<>>)

LogicalOps == {"equal", "distinct", "bvuge", "bvugt", "bvule", "bvult",
               "bvsge", "bvsgt", "bvsle", "bvslt", "land", "lor", "lxor"}

\* AbstractNode::isLogical(): the node's logical/bitvector tag
RECURSIVE isLogical(_)
isLogical(n) ==
  IF n.op \in LogicalOps THEN TRUE
  ELSE IF n.op = "ite" THEN isLogical(n.kids[2])
  ELSE FALSE


(***************************************************************************)
(* LLVM values, as do_convert reads them.  kind is the dynamic class seen   *)
(* by dyn_cast_or_null; ops are the operands; width is the integer          *)
(* bit-width of the value's type; callee is the called function's name,     *)
(* cut into fragments at the boundaries of the byte-swap marker.            *)
(***************************************************************************)
Value(kind, opcode, pred, ops, width, name, callee, val) ==
  [kind |-> kind, opcode |-> opcode, pred |-> pred, ops |-> ops, width |-> width,
   name |-> name, callee |-> callee, val |-> val]

Argument(name, width) == Value("Argument", "", "", <<>>, width, name, <<>>, Zero128)
ConstantInt(val, width) == Value("ConstantInt", "", "", <<>>, width, "", <<>>, val)
\* a value that is no instruction, constant integer or argument (a global, an undef)
OtherValue == Value("Other", "", "", <<>>, 0, "", <<>>, Zero128)
\* the null llvm::Value* (an entry block without terminator)
NullValue == Value("Null", "", "", <<>>, 0, "", <<>>, Zero128)
Instruction(opcode, ops, width) == Value("Instruction", opcode, "", ops, width, "", <<>>, Zero128)
ICmpInst(pred, ops) == Value("ICmpInst", "ICmp", pred, ops, 1, "", <<>>, Zero128)
CallInst(callee, ops, width) == Value("CallInst", "Call", "", ops, width, "", callee, Zero128)

IsInstruction(v) == v.kind \in {"Instruction", "ICmpInst", "CallInst"}

BinaryOpcodes == {"AShr", "Add", "LShr", "Mul", "SDiv", "SRem", "Shl", "Sub", "UDiv", "URem"}
LogicOpcodes == {"And", "Or", "Xor"}
ExtOpcodes == {"SExt", "ZExt"}
\* opcodes without a case in the switch
OtherOpcodes == {"Load", "FAdd", "Br"}
Predicates == {"ICMP_EQ", "ICMP_NE", "ICMP_UGE", "ICMP_UGT", "ICMP_ULE", "ICMP_ULT",
               "ICMP_SGE", "ICMP_SGT", "ICMP_SLE", "ICMP_SLT"}
\* predicate codes outside the ten of the inner switch
OtherPredicates == {"BAD_ICMP_PREDICATE"}

Marker == "llvm.bswap.i"
\* getCalledFunction() of an indirect call is null: it has no name
Indirect == <<>>
Callees == {<<Marker, "32">>, <<"my.", Marker, "16">>, <<"llvm.bswap.", "v2i32">>,
            <<"llvm.ctpop.i", "32">>, Indirect}

Widths == {1, 8, 32, 64, 128}

Consts == {ConstantInt(Dig(1, 0, 0), 1), ConstantInt(Dig(200, 0, 0), 8),
           ConstantInt(Dig(DigitMax, DigitMax, 0), 32), ConstantInt(AllOnes64, 64),
           ConstantInt(Dig(7, 0, 0), 128), ConstantInt(Dig(0, 0, 1), 128),
           ConstantInt(Dig(5, 0, 3), 128)}


(***************************************************************************)
(* The modules offered to convert.  Values are named: the arguments         *)
(* a1..a4, an unregistered argument u, a constant k, a value o of another   *)
(* class, the instructions i1 and i2, the terminator t; null is the absent  *)
(* terminator.  An instruction reads values defined before it.              *)
(***************************************************************************)
ArgNames == <<"a", "b", "c", "d">>
ArgIds == <<"a1", "a2", "a3", "a4">>
ValueIds == {"a1", "a2", "a3", "a4", "u", "k", "o", "i1", "i2", "t", "null"}

\* the values that are the same in every module
Leaves ==
  [id \in {"a1", "a2", "a3", "a4", "u", "o", "null"} |->
     CASE id = "a1" -> Argument(ArgNames[1], 32)
       [] id = "a2" -> Argument(ArgNames[2], 32)
       [] id = "a3" -> Argument(ArgNames[3], 32)
       [] id = "a4" -> Argument(ArgNames[4], 32)
       [] id = "u" -> Argument("undeclared", 32)
       [] id = "o" -> OtherValue
       [] id = "null" -> NullValue]

\* the value named id in the module whose constant and instructions are g
ValueOf(g, id) == IF id \in DOMAIN g THEN g[id] ELSE Leaves[id]

(***************************************************************************)
(* The Expression Context.                                                  *)
(***************************************************************************)
\* the variables registered in the context's symbol table
Registered == {ArgNames[i] : i \in 1..NumArgs}

\* what one invocation of do_convert ends in
Returned(n) == [res |-> "return", node |-> n, err |-> ""]
Thrown(msg) == [res |-> "throw", node |-> NoNode, err |-> msg]
CtxThrown(msg) == [res |-> "ctxthrow", node |-> NoNode, err |-> msg]
Crashed == [res |-> "crash", node |-> NoNode, err |-> "null dereference"]

\* a builder of the context: the node's constructor reads its children
Built(n) == IF \E i \in 1..Len(n.kids) : ~IsNode(n.kids[i]) THEN Crashed ELSE Returned(n)

\* AstContext::getVariableNode(name)
getVariableNode(name) ==
  IF name \in Registered THEN Returned(variable(name)) ELSE CtxThrown("variable does not exist")

(***************************************************************************)
(* do_convert, lines 21-210.                                                *)
(***************************************************************************)
\* name.find("llvm.bswap.i") == 0: only names that start with the marker
IsBswapPrefix(callee) == Len(callee) > 0 /\ callee[1] = Marker

\* call->getCalledFunction()->getName().find("llvm.bswap.i") != npos
IsBswap(callee) == \E i \in 1..Len(callee) : callee[i] = Marker

UnaryOpcodes == {"Ret", "SExt", "ZExt", "Trunc"}

\* the number of operands do_convert converts for the value: none when it
\* throws before any recursive call, and none for constants and arguments
NumOperands(v) ==
  IF ~IsInstruction(v) THEN 0
  ELSE IF v.kind = "CallInst" THEN (IF IsBswap(v.callee) THEN 1 ELSE 0)
  ELSE IF v.opcode \in BinaryOpcodes \cup LogicOpcodes \cup {"ICmp"} THEN 2
  ELSE IF v.opcode \in UnaryOpcodes THEN 1
  ELSE IF v.opcode = "Select" THEN 3
  ELSE 0

\* the operand converted next, given those already descended into: each case
\* calls do_convert on operand 0, then 1, then 2
NextOperand(v, idx) == Len(idx) + 1

BinaryBuilderShifted(opcode) ==
  CASE opcode = "AShr" -> "bvlshr"
    [] opcode = "Add"  -> "bvadd"
    [] opcode = "LShr" -> "bvlshr"
    [] opcode = "Mul"  -> "bvmul"
    [] opcode = "SDiv" -> "bvsdiv"
    [] opcode = "SRem" -> "bvsrem"
    [] opcode = "Shl"  -> "bvshl"
    [] opcode = "Sub"  -> "bvsub"
    [] opcode = "UDiv" -> "bvudiv"
    [] opcode = "URem" -> "bvurem"

\* the builder of each binary case of the switch
BinaryBuilder(opcode) ==
  CASE opcode = "AShr" -> "bvashr"
    [] opcode = "Add"  -> "bvadd"
    [] opcode = "LShr" -> "bvlshr"
    [] opcode = "Mul"  -> "bvmul"
    [] opcode = "SDiv" -> "bvsdiv"
    [] opcode = "SRem" -> "bvsrem"
    [] opcode = "Shl"  -> "bvshl"
    [] opcode = "Sub"  -> "bvsub"
    [] opcode = "UDiv" -> "bvudiv"
    [] opcode = "URem" -> "bvurem"

\* the builder of each case of the predicate switch
PredicateBuilder(pred) ==
  CASE pred = "ICMP_EQ"  -> "equal"
    [] pred = "ICMP_NE"  -> "distinct"
    [] pred = "ICMP_UGE" -> "bvuge"
    [] pred = "ICMP_UGT" -> "bvugt"
    [] pred = "ICMP_ULE" -> "bvule"
    [] pred = "ICMP_ULT" -> "bvult"
    [] pred = "ICMP_SGE" -> "bvsge"
    [] pred = "ICMP_SGT" -> "bvsgt"
    [] pred = "ICMP_SLE" -> "bvsle"
    [] pred = "ICMP_SLT" -> "bvslt"

\* case ICmp: node stays null when no case of the predicate switch returns
ICmpCase(v, LHS, RHS) ==
  IF v.kind = "ICmpInst"
  THEN IF v.pred \in Predicates
       THEN Built(Build2(PredicateBuilder(v.pred), LHS, RHS))
       ELSE Returned(NullNode)
  ELSE Thrown("ICmpInst not supported")

LogicalConnective(opcode) ==
  CASE opcode = "And" -> "land" [] opcode = "Or" -> "lor" [] opcode = "Xor" -> "lxor"

BitwiseConnective(opcode) ==
  CASE opcode = "And" -> "bvand" [] opcode = "Or" -> "bvor" [] opcode = "Xor" -> "bvxor"

\* LHS->isLogical() || RHS->isLogical()
BothLogicalAsEither(LHS, RHS) == isLogical(LHS) \/ isLogical(RHS)

\* LHS->isLogical() && RHS->isLogical()
BothLogical(LHS, RHS) == isLogical(LHS) /\ isLogical(RHS)

\* cases And, Or, Xor
LogicCase(opcode, LHS, RHS) ==
  IF ~IsNode(LHS) \/ (isLogical(LHS) /\ ~IsNode(RHS)) THEN Crashed
  ELSE IF BothLogical(LHS, RHS)
       THEN Built(ite(Build2(LogicalConnective(opcode), LHS, RHS), bvtrue, bvfalse))
       ELSE Built(Build2(BitwiseConnective(opcode), LHS, RHS))

SelectConditionUnrepaired(nif) == nif

\* the condition handed to ite: equal(nif, bvtrue) unless nif is logical
SelectCondition(nif) == IF isLogical(nif) THEN nif ELSE Build2("equal", nif, bvtrue)

\* case Select
SelectCase(nif, nthen, nelse) ==
  IF ~IsNode(nif) THEN Crashed
  ELSE Built(ite(SelectCondition(nif), nthen, nelse))

ExtensionSizeFinal(size, csze) == size

\* size - csze of cases SExt and ZExt (both unsigned; the module's casts have size > csze)
ExtensionSize(size, csze) == size - csze

\* size - 1 of case Trunc
ExtractHigh(size) == size - 1


\* the instruction cases return a default node instead of throwing
SwitchDefaultSubstituted == Returned(bvfalse)

\* default: of the opcode switch
SwitchDefault == Thrown("LLVM instruction not supported")

\* the call branch, lines 31-36; node is the converted operand 0 of a byte-swap
CallCase(v, node) ==
  IF v.callee = Indirect THEN Crashed
  ELSE IF IsBswap(v.callee) THEN Built(Build1("bswap", node))
  ELSE Thrown("LLVM call not supported")

\* what do_convert(v) ends in once the operands it converts are converted;
\* arg[i] is the node of operand i - 1 and g the module
do_convert(g, v, arg) ==
  IF IsInstruction(v) THEN
    IF v.kind = "CallInst" THEN CallCase(v, IF Len(arg) > 0 THEN arg[1] ELSE NoNode)
    ELSE IF v.opcode \in BinaryOpcodes THEN Built(Build2(BinaryBuilder(v.opcode), arg[1], arg[2]))
    ELSE IF v.opcode \in LogicOpcodes THEN LogicCase(v.opcode, arg[1], arg[2])
    ELSE IF v.opcode = "ICmp" THEN ICmpCase(v, arg[1], arg[2])
    ELSE IF v.opcode = "Ret" THEN Returned(arg[1])
    ELSE IF v.opcode = "SExt" THEN Built(sx(ExtensionSize(v.width, ValueOf(g, v.ops[1]).width), arg[1]))
    ELSE IF v.opcode = "ZExt" THEN Built(zx(ExtensionSize(v.width, ValueOf(g, v.ops[1]).width), arg[1]))
    ELSE IF v.opcode = "Trunc" THEN Built(extract(ExtractHigh(v.width), 0, arg[1]))
    ELSE IF v.opcode = "Select" THEN SelectCase(arg[1], arg[2], arg[3])
    ELSE SwitchDefault
  ELSE IF v.kind = "ConstantInt" THEN Returned(bv(getLimitedValue(v.val), v.width))
  ELSE IF v.kind = "Argument" THEN getVariableNode(v.name)
  ELSE Thrown("LLVM instruction not supported")

(***************************************************************************)
(* The families of modules the conversions start from.                      *)
(***************************************************************************)
\* the instructions over the operands src; casts obey LLVM's rule: an
\* extension widens, a truncation narrows
InstructionsOver(g, src) ==
  {Instruction(op, <<x, y>>, ValueOf(g, x).width) : op \in BinaryOpcodes \cup LogicOpcodes, x \in src, y \in src}
  \cup {ICmpInst(p, <<x, y>>) : p \in Predicates \cup OtherPredicates, x \in src, y \in src}
  \cup {Instruction("Select", <<x, y, z>>, ValueOf(g, y).width) : x \in src, y \in src, z \in src}
  \cup UNION {{Instruction(op, <<x>>, w) : op \in ExtOpcodes, w \in {n \in Widths : n > ValueOf(g, x).width}} : x \in src}
  \cup UNION {{Instruction("Trunc", <<x>>, w) : w \in {n \in Widths : n < ValueOf(g, x).width}} : x \in src}
  \cup {CallInst(c, <<x>>, ValueOf(g, x).width) : c \in Callees, x \in src}
  \cup {Instruction("Load", <<x>>, 32) : x \in src}
  \cup {Instruction("FAdd", <<x, y>>, 32) : x \in src, y \in src}

Ret(x) == Instruction("Ret", <<x>>, 0)

Module(k, v1, v2, t) == [id \in {"k", "i1", "i2", "t"} |->
  CASE id = "k" -> k [] id = "i1" -> v1 [] id = "i2" -> v2 [] id = "t" -> t]

DeepConst == ConstantInt(Dig(1, 0, 0), 1)
WideInner == Instruction("Add", <<"a1", "k">>, 32)

\* an instruction over an argument and a constant, and one over it and the constant
DeepGraph(g) ==
  \E v1 \in InstructionsOver([k |-> DeepConst], {"a1", "k"}) :
    \E v2 \in InstructionsOver([k |-> DeepConst, i1 |-> v1], {"k", "i1"}) :
      g = Module(DeepConst, v1, v2, Ret("i2"))

\* one instruction over every kind of leaf and every constant
WideGraph(g) ==
  \E k \in Consts :
    \E v2 \in InstructionsOver([k |-> k], {ArgIds[i] : i \in 1..NumArgs} \cup {"u", "k", "o"}) :
      g = Module(k, WideInner, v2, Ret("i2"))

\* every terminator over a fixed body
EntryGraph(g) ==
  \E k \in Consts, p \in {"ICMP_ULT", "BAD_ICMP_PREDICATE"} :
    \E t \in {Ret(x) : x \in {"a1", "u", "k", "o", "i1", "i2"}} \cup {Instruction("Br", <<"i2">>, 0)} :
      g = Module(k, ICmpInst(p, <<"a1", "k">>), Instruction("Xor", <<"i1", "i1">>, 1), t)

(***************************************************************************)
(* State.                                                                   *)
(***************************************************************************)
VARIABLES
  graph,       \* the values of the llvm::Module
  terminator,  \* what entryBlock.getTerminator() returns: "t" or "null"
  functions,   \* the names of the module's functions
  fname,       \* the name handed to convert
  status,      \* "idle", "running", "done", "failed" (an exception left convert), "crashed"
  error,       \* the message of the exception
  stack,       \* the active invocations of do_convert, innermost last
  result,      \* what convert returned
  calls,       \* per value, the invocations of do_convert on it in this conversion
  first,       \* per value, the node its first completed invocation returned
  last,        \* the invocation that returned last: value, operand nodes, node
  unwound      \* the stack the last exception unwound

vars == <<graph, terminator, functions, fname, status, error, stack, result, calls,
          first, last, unwound>>

Frame(id) == [v |-> id, kids |-> <<>>, idx |-> <<>>]

\* the nodes of a frame's converted operands, by operand position
Args(f) == [i \in 1..Len(f.kids) |-> f.kids[CHOOSE j \in 1..Len(f.idx) : f.idx[j] = i]]

NoCalls == [id \in ValueIds |-> 0]
NoFirst == [id \in ValueIds |-> NoNode]
NoLast == [v |-> "null", args |-> <<>>, node |-> NoNode]

Init ==
  /\ \/ /\ DeepGraph(graph) \/ WideGraph(graph)
        /\ terminator = "t"
        /\ functions = {"__triton"}
     \/ /\ EntryGraph(graph)
        /\ terminator \in {"t", "null"}
        /\ functions \in {{"__triton"}, {"main", "__triton"}, {"main"}, {}}
  /\ fname = "__triton"
  /\ status = "idle"
  /\ error = ""
  /\ stack = <<>>
  /\ result = NoNode
  /\ calls = NoCalls
  /\ first = NoFirst
  /\ last = NoLast
  /\ unwound = <<>>

Top == stack[Len(stack)]

\* an exception leaves every frame: neither do_convert nor convert catches
Propagate(stk) == <<>>

\* convert, lines 213-218: the function is missing
ConvertMissing ==
  /\ status = "idle"
  /\ fname \notin functions
  /\ status' = "failed"
  /\ error' = "llvm::Module doesn't contain the given function name"
  /\ UNCHANGED <<graph, terminator, functions, fname, stack, result, calls, first, last, unwound>>

\* convert, lines 213-227: do_convert is called on the entry block's terminator
ConvertEnter ==
  /\ status = "idle"
  /\ fname \in functions
  /\ status' = "running"
  /\ stack' = <<Frame(terminator)>>
  /\ calls' = [calls EXCEPT ![terminator] = @ + 1]
  /\ UNCHANGED <<graph, terminator, functions, fname, error, result, first, last, unwound>>

\* the descent with a cache keyed by the value: a converted value is not
\* converted again
DescendMemoized ==
  /\ status = "running"
  /\ Len(Top.idx) < NumOperands(ValueOf(graph, Top.v))
  /\ LET i == NextOperand(ValueOf(graph, Top.v), Top.idx)
         callee == ValueOf(graph, Top.v).ops[i]
     IN IF first[callee] # NoNode
        THEN /\ stack' = [stack EXCEPT ![Len(stack)].idx = Append(@, i),
                                       ![Len(stack)].kids = Append(@, first[callee])]
             /\ UNCHANGED calls
        ELSE /\ stack' = Append([stack EXCEPT ![Len(stack)].idx = Append(@, i)], Frame(callee))
             /\ calls' = [calls EXCEPT ![callee] = @ + 1]
  /\ UNCHANGED <<graph, terminator, functions, fname, status, error, result, first, last,
                 unwound>>

\* a recursive call this->do_convert(instruction->getOperand(i))
Descend ==
  /\ status = "running"
  /\ Len(Top.idx) < NumOperands(ValueOf(graph, Top.v))
  /\ LET i == NextOperand(ValueOf(graph, Top.v), Top.idx)
         callee == ValueOf(graph, Top.v).ops[i]
     IN /\ stack' = Append([stack EXCEPT ![Len(stack)].idx = Append(@, i)], Frame(callee))
        /\ calls' = [calls EXCEPT ![callee] = @ + 1]
  /\ UNCHANGED <<graph, terminator, functions, fname, status, error, result, first, last, unwound>>

\* the invocation's outcome once its operands are converted
Outcome == do_convert(graph, ValueOf(graph, Top.v), Args(Top))

Ready == status = "running" /\ Len(Top.kids) = NumOperands(ValueOf(graph, Top.v))

\* an invocation returns a node (or the null node) to its caller
Return ==
  /\ Ready
  /\ Outcome.res = "return"
  /\ Len(stack) > 1
  /\ stack' = [SubSeq(stack, 1, Len(stack) - 1) EXCEPT ![Len(stack) - 1].kids = Append(@, Outcome.node)]
  /\ first' = IF first[Top.v] = NoNode THEN [first EXCEPT ![Top.v] = Outcome.node] ELSE first
  /\ last' = [v |-> Top.v, args |-> Args(Top), node |-> Outcome.node]
  /\ UNCHANGED <<graph, terminator, functions, fname, status, error, result, calls, unwound>>

\* the outermost invocation returns: convert returns its node
ReturnRoot ==
  /\ Ready
  /\ Outcome.res = "return"
  /\ Len(stack) = 1
  /\ stack' = <<>>
  /\ status' = "done"
  /\ result' = Outcome.node
  /\ first' = IF first[Top.v] = NoNode THEN [first EXCEPT ![Top.v] = Outcome.node] ELSE first
  /\ last' = [v |-> Top.v, args |-> Args(Top), node |-> Outcome.node]
  /\ UNCHANGED <<graph, terminator, functions, fname, error, calls, unwound>>

\* throw triton::exceptions::AstLifting, lines 35, 83, 199, 209
Throw ==
  /\ Ready
  /\ Outcome.res = "throw"
  /\ stack' = Propagate(stack)
  /\ unwound' = stack
  /\ status' = "failed"
  /\ error' = Outcome.err
  /\ UNCHANGED <<graph, terminator, functions, fname, result, calls, first, last>>

\* getVariableNode throws: the context's exception passes through
CtxThrow ==
  /\ Ready
  /\ Outcome.res = "ctxthrow"
  /\ stack' = Propagate(stack)
  /\ unwound' = stack
  /\ status' = "failed"
  /\ error' = Outcome.err
  /\ UNCHANGED <<graph, terminator, functions, fname, result, calls, first, last>>

\* a null node is dereferenced: the process ends
Crash ==
  /\ Ready
  /\ Outcome.res = "crash"
  /\ stack' = <<>>
  /\ unwound' = stack
  /\ status' = "crashed"
  /\ error' = Outcome.err
  /\ UNCHANGED <<graph, terminator, functions, fname, result, calls, first, last>>

Next ==
  \/ ConvertMissing
  \/ ConvertEnter
  \/ Descend
  \/ Return
  \/ ReturnRoot
  \/ Throw
  \/ CtxThrow
  \/ Crash

Spec == Init /\ [][Next]_vars


(***************************************************************************)
(* Properties.                                                              *)
(***************************************************************************)
Frames == {stack[i] : i \in 1..Len(stack)}
InOrder(idx) == \A i \in 1..Len(idx) : idx[i] = i
LastValue == ValueOf(graph, last.v)
HasReturned == last.node # NoNode
TopValue == ValueOf(graph, Top.v)

CaseOpcodes == BinaryOpcodes \cup LogicOpcodes \cup {"ICmp", "Ret", "SExt", "ZExt", "Trunc", "Select"}

\* the values the lifter has no translation for
Rejected(v) ==
  \/ v.kind = "CallInst" /\ v.callee # <<>> /\ \A i \in 1..Len(v.callee) : v.callee[i] # "llvm.bswap.i"
  \/ v.kind = "Instruction" /\ v.opcode \notin CaseOpcodes
  \/ v.kind \notin {"CallInst", "Instruction", "ICmpInst", "ConstantInt", "Argument"}

\* C1: a missing function, an unsupported opcode, a call without the byte-swap
\* marker and a value of another class each end convert in an AstLifting
\* exception with no node returned; the exception is raised with every frame
\* abandoned, no default node is put in its place and no operand is converted
\* afterwards.
C1_FailureIsTerminal ==
  [][/\ (status = "idle" /\ fname \notin functions)
          => (status' = "failed" /\ result' = NoNode /\ stack' = <<>> /\ calls' = calls)
     /\ (status = "running" /\ Rejected(TopValue))
          => (status' = "failed" /\ result' = NoNode /\ stack' = <<>> /\ calls' = calls
              /\ first' = first /\ last' = last)
     /\ status = "failed" => UNCHANGED vars]_vars

\* an unsupported instruction was reached two levels below the terminator while
\* its caller still had an operand to convert
C1_Witness ==
  /\ status = "failed"
  /\ error = "LLVM instruction not supported"
  /\ Len(unwound) >= 3
  /\ \E i \in 1..Len(unwound) :
       Len(unwound[i].kids) + 1 < Len(ValueOf(graph, unwound[i].v).ops)
  /\ result = NoNode

\* C2: a comparison whose predicate is none of the ten recognized ones never
\* returns anything, neither a node nor a null node: do_convert throws.
C2_BadPredicateThrows ==
  \A id \in {"i1", "i2"} :
    (graph[id].kind = "ICmpInst" /\ graph[id].pred \notin Predicates) => first[id] = NoNode

\* C3: And, Or, Xor over operand nodes L, R return ite(land/lor/lxor(L, R),
\* bvtrue, bvfalse) when both are logical and bvand/bvor/bvxor(L, R) otherwise.
C3_LogicalOrBitwise ==
  (HasReturned /\ LastValue.opcode \in {"And", "Or", "Xor"}) =>
    LET L == last.args[1]
        R == last.args[2]
        connective == [o \in {"And", "Or", "Xor"} |->
                         CASE o = "And" -> "land" [] o = "Or" -> "lor" [] o = "Xor" -> "lxor"]
        bitwise == [o \in {"And", "Or", "Xor"} |->
                         CASE o = "And" -> "bvand" [] o = "Or" -> "bvor" [] o = "Xor" -> "bvxor"]
    IN IF isLogical(L) /\ isLogical(R)
       THEN last.node = ite(Build2(connective[LastValue.opcode], L, R), bvtrue, bvfalse)
       ELSE last.node = Build2(bitwise[LastValue.opcode], L, R)

\* an Or of one logical and one bitvector operand returned the bitwise node
C3_Witness ==
  /\ HasReturned
  /\ LastValue.opcode = "Or"
  /\ isLogical(last.args[1]) /\ ~isLogical(last.args[2])
  /\ last.node.op = "bvor"

\* C4: a Select converts condition, then, else in that order to C, T, E and
\* returns ite(C, T, E) when C is logical, ite(equal(C, bvtrue), T, E) when it
\* is not; the condition of the ite is logical either way.
C4_SelectCondition ==
  /\ \A f \in Frames : ValueOf(graph, f.v).opcode = "Select" => InOrder(f.idx)
  /\ (HasReturned /\ LastValue.opcode = "Select") =>
       LET C == last.args[1]
           T == last.args[2]
           E == last.args[3]
       IN /\ last.node = IF isLogical(C) THEN ite(C, T, E)
                         ELSE ite(Build2("equal", C, bvtrue), T, E)
          /\ isLogical(last.node.kids[1])
          /\ \A i \in 1..3 : last.args[i] = first[LastValue.ops[i]]

\* a Select over a bitvector condition returned an ite over equal(C, bvtrue)
C4_Witness ==
  /\ HasReturned
  /\ LastValue.opcode = "Select"
  /\ ~isLogical(last.args[1])
  /\ last.node.kids[1].op = "equal"
  /\ last.args[2] # last.args[3]

\* C5: with W the width of the result and w the width of operand 0, SExt
\* returns sx(W - w, T), ZExt zx(W - w, T) whenever W >= w, and Trunc
\* extract(W - 1, 0, T).
C5_WidthArithmetic ==
  HasReturned =>
    LET W == LastValue.width
        w == ValueOf(graph, LastValue.ops[1]).width
    IN /\ (LastValue.opcode = "SExt" /\ W >= w) => last.node = sx(W - w, last.args[1])
       /\ (LastValue.opcode = "ZExt" /\ W >= w) => last.node = zx(W - w, last.args[1])
       /\ LastValue.opcode = "Trunc" => last.node = extract(W - 1, 0, last.args[1])

\* a sign extension from 32 to 128 bits returned sx(96, T)
C5_Witness ==
  /\ HasReturned
  /\ LastValue.opcode = "SExt"
  /\ LastValue.width = 128
  /\ ValueOf(graph, LastValue.ops[1]).width = 32
  /\ last.node.a = 96

C7_ConstantExact ==
  (HasReturned /\ LastValue.kind = "ConstantInt") =>
    last.node = bv(LastValue.val, LastValue.width)

\* C8: each binary opcode and each recognized predicate returns its own builder
\* over (T(operand 0), T(operand 1)), operand 0 converted first; Ret returns
\* T(operand 0).
C8_BuilderTable ==
  LET builder == [o \in BinaryOpcodes \cup Predicates |->
        CASE o = "Add" -> "bvadd" [] o = "Sub" -> "bvsub" [] o = "Mul" -> "bvmul"
          [] o = "UDiv" -> "bvudiv" [] o = "SDiv" -> "bvsdiv" [] o = "URem" -> "bvurem"
          [] o = "SRem" -> "bvsrem" [] o = "LShr" -> "bvlshr" [] o = "AShr" -> "bvashr"
          [] o = "Shl" -> "bvshl"
          [] o = "ICMP_EQ" -> "equal" [] o = "ICMP_NE" -> "distinct"
          [] o = "ICMP_UGE" -> "bvuge" [] o = "ICMP_UGT" -> "bvugt"
          [] o = "ICMP_ULE" -> "bvule" [] o = "ICMP_ULT" -> "bvult"
          [] o = "ICMP_SGE" -> "bvsge" [] o = "ICMP_SGT" -> "bvsgt"
          [] o = "ICMP_SLE" -> "bvsle" [] o = "ICMP_SLT" -> "bvslt"]
      key(v) == IF v.opcode = "ICmp" THEN v.pred ELSE v.opcode
  IN /\ \A o1, o2 \in DOMAIN builder : o1 # o2 => builder[o1] # builder[o2]
     /\ \A f \in Frames :
          key(ValueOf(graph, f.v)) \in DOMAIN builder \cup {"Ret"} => InOrder(f.idx)
     /\ (HasReturned /\ key(LastValue) \in DOMAIN builder) =>
          /\ last.node = Build2(builder[key(LastValue)], last.args[1], last.args[2])
          /\ \A i \in 1..2 : last.args[i] = first[LastValue.ops[i]]
     /\ (HasReturned /\ LastValue.opcode = "Ret") =>
          /\ last.node = last.args[1]
          /\ last.node = first[LastValue.ops[1]]

\* an arithmetic shift right of two different operands returned bvashr over
\* them, in their positions
C8_Witness ==
  /\ HasReturned
  /\ LastValue.opcode = "AShr"
  /\ last.args[1] # last.args[2]
  /\ last.node = Build2("bvashr", first[LastValue.ops[1]], first[LastValue.ops[2]])

RECURSIVE PathsTo(_, _, _)
\* the number of operand paths from the value from to the value to
PathsTo(g, from, to) ==
  IF from = to THEN 1
  ELSE LET ops == ValueOf(g, from).ops
           RECURSIVE Sum(_)
           Sum(i) == IF i > Len(ops) THEN 0 ELSE PathsTo(g, ops[i], to) + Sum(i + 1)
       IN Sum(1)

\* C10: in a conversion that returns, do_convert was invoked on each value once
\* per operand path from the terminator to it, and every invocation on a value
\* returned the node its first invocation returned (so a descent that converts
\* each value once builds the same tree).
C10_NotMemoized ==
  /\ HasReturned => last.node = first[last.v]
  /\ status = "done" => \A id \in ValueIds : calls[id] = PathsTo(graph, terminator, id)

\* a conversion returned after four invocations on one argument that only two
\* operands of one instruction refer to
C10_Witness ==
  /\ status = "done"
  /\ IsNode(result)
  /\ calls["a1"] = 4
  /\ calls["i1"] = 2
  /\ graph["i1"].ops = <<"a1", "a1">>

====
